---------------------------- MODULE Spec2Model ----------------------------
(***************************************************************************)
(* Model of bookmark_merger.py: extraction of a bookmark tree from a       *)
(* parsed markup tree (parse_bookmarks / process_dl / process_container /  *)
(* process_dt), the merge of BookmarkMergerApp.merge_bookmarks (get_key,   *)
(* recursive_merge), and the serializer (generate_netscape_html /          *)
(* write_items / escape_html).                                             *)
(*                                                                         *)
(* Python strings are sequences of one-character strings, so that          *)
(* escaping and re-reading are computed character by character.  Python's  *)
(* None is the value None below, which is no sequence of characters.       *)
(***************************************************************************)
EXTENDS Integers, Sequences, FiniteSets, TLC

\* ------------------------------------------------------------------ bounds

\* Elements of an enumerated markup document.
MaxElems == 4
\* Characters of an enumerated title.
MaxTitleLen == 3
\* Folders and bookmarks of an enumerated input file of a merge.
MaxNodes == 2
\* Folders and bookmarks of an enumerated tree that is written and read back.
MaxWritten == 3

\* ------------------------------------------------------------ Python values

\* Python's None: a one-element tuple whose element is no single character.
None == <<"#None">>

\* Truthiness of an optional string ('if add_date:'): None and '' are false.
Truthy(v) == v # None /\ v # <<>>

\* str(v) as an f-string interpolates it: None is written as the text None.
Str(v) == IF v = None THEN <<"N", "o", "n", "e">> ELSE v

RECURSIVE Flatten(_)
\* Concatenation of a sequence of sequences.
Flatten(ss) == IF ss = <<>> THEN <<>> ELSE Head(ss) \o Flatten(Tail(ss))

\* ------------------------------------------------------------ markup trees

\* The name of a node that is no element: a string, a comment, a doctype.
NoName == "#none"

NoAttrs == [href |-> None, add_date |-> None, icon |-> None, last_modified |-> None]

\* An element of the parsed markup: attrs gives what Tag.get returns for each
\* attribute the program reads (None when the attribute is absent).
Elem(nm, at, kids) == [name |-> nm, attrs |-> at, children |-> kids, text |-> <<>>]

\* A string of the parsed markup.
TextNode(s) == [name |-> NoName, attrs |-> NoAttrs, children |-> <<>>, text |-> s]

RECURSIVE get_text(_)
\* Tag.get_text(): the strings below the node, concatenated.
get_text(n) ==
    IF n.name = NoName THEN n.text
    ELSE Flatten([i \in 1..Len(n.children) |-> get_text(n.children[i])])

RECURSIVE NodeAt(_, _)
\* The node reached from n by the child positions in path.
NodeAt(n, path) ==
    IF path = <<>> THEN n ELSE NodeAt(n.children[Head(path)], Tail(path))

\* Tag.find(nm, recursive=False): the position of the first direct child named
\* nm, as a one-step path; <<>> when there is none (find returns None).
find_direct(el, nm) ==
    LET hits == {i \in 1..Len(el.children) : el.children[i].name = nm}
    IN  IF hits = {} THEN <<>>
        ELSE <<CHOOSE i \in hits : \A j \in hits : i <= j>>

RECURSIVE find_in(_, _, _)
\* The path of the first node named nm among the descendants of the nodes
\* kids[i..], in document order; <<>> when there is none.
find_in(kids, i, nm) ==
    IF i > Len(kids) THEN <<>>
    ELSE IF kids[i].name = nm THEN <<i>>
    ELSE LET below == find_in(kids[i].children, 1, nm)
         IN  IF below # <<>> THEN <<i>> \o below ELSE find_in(kids, i + 1, nm)

\* Tag.find(nm) with the default recursive=True.
find_recursive(el, nm) == find_in(el.children, 1, nm)

\* The lookups of process_dt: find(..., recursive=False).
dt_find(el, nm) == find_direct(el, nm)

\* ------------------------------------------------------------- extraction

\* Results of the extraction functions carry, beside the items the code
\* returns, the history of what was consumed: <<"node", path>> for the heading
\* or link at path that yielded an item, <<"dl", path>> for a definition list
\* whose contents were extracted.

RECURSIVE process_dl(_, _), process_container(_, _), process_dt(_, _)
RECURSIVE ScanList(_, _, _), Rescan(_, _, _, _, _)

\* The loop of process_dl and of process_container over children i..: a dt is
\* extracted, a p is a transparent wrapper, everything else is passed over.
ScanList(el, path, i) ==
    IF i > Len(el.children) THEN [items |-> <<>>, log |-> <<>>]
    ELSE LET child == el.children[i]
             here  == IF child.name = "dt" THEN process_dt(child, path \o <<i>>)
                      ELSE IF child.name = "p"
                           THEN process_container(child, path \o <<i>>)
                      ELSE [items |-> <<>>, log |-> <<>>]
             rest  == ScanList(el, path, i + 1)
         IN  [items |-> here.items \o rest.items, log |-> here.log \o rest.log]

process_dl(dl_element, path) ==
    LET r == ScanList(dl_element, path, 1)
    IN  [items |-> r.items, log |-> <<<<"dl", path>>>> \o r.log]

process_container(element, path) == ScanList(element, path, 1)

\* The second loop of process_dt, over children i..: the heading and the link
\* found above are passed over by identity, every dl by name.
Rescan(el, path, h3, a, i) ==
    IF i > Len(el.children) THEN [items |-> <<>>, log |-> <<>>]
    ELSE LET child == el.children[i]
             here  == IF <<i>> = h3 \/ <<i>> = a
                           THEN [items |-> <<>>, log |-> <<>>]
                      ELSE IF child.name = "dl"
                           THEN [items |-> <<>>, log |-> <<>>]
                      ELSE IF child.name = "dt"
                           THEN process_dt(child, path \o <<i>>)
                      ELSE IF child.name = "p"
                           THEN process_container(child, path \o <<i>>)
                      ELSE [items |-> <<>>, log |-> <<>>]
             rest  == Rescan(el, path, h3, a, i + 1)
         IN  [items |-> here.items \o rest.items, log |-> here.log \o rest.log]

process_dt(dt_element, path) ==
    LET h3 == dt_find(dt_element, "h3")
        a  == dt_find(dt_element, "a")
        dl == find_direct(dt_element, "dl")
        kids == IF h3 # <<>> /\ dl # <<>>
                THEN process_dl(NodeAt(dt_element, dl), path \o dl)
                ELSE [items |-> <<>>, log |-> <<>>]
        own == IF h3 # <<>> THEN
                   [items |-> << [type |-> "folder",
                                  title |-> get_text(NodeAt(dt_element, h3)),
                                  add_date |-> NodeAt(dt_element, h3).attrs.add_date,
                                  last_modified |-> NodeAt(dt_element, h3).attrs.last_modified,
                                  children |-> kids.items] >>,
                    log |-> <<<<"node", path \o h3>>>> \o kids.log]
               ELSE IF a # <<>> THEN
                   [items |-> << [type |-> "bookmark",
                                  title |-> get_text(NodeAt(dt_element, a)),
                                  url |-> NodeAt(dt_element, a).attrs.href,
                                  add_date |-> NodeAt(dt_element, a).attrs.add_date,
                                  icon |-> NodeAt(dt_element, a).attrs.icon] >>,
                    log |-> <<<<"node", path \o a>>>>]
               ELSE [items |-> <<>>, log |-> <<>>]
        more == Rescan(dt_element, path, h3, a, 1)
    IN  [items |-> own.items \o more.items, log |-> own.log \o more.log]

\* What open() gives for a file that cannot be read: parse_bookmarks catches
\* the exception and returns the empty list.
Unreadable == <<[name |-> "#unreadable", attrs |-> NoAttrs, children |-> <<>>, text |-> <<>>]>>

\* parse_bookmarks on the parsed document soup (the sequence of its top-level
\* nodes): the first dl of the document is extracted.
parse_bookmarks(soup) ==
    IF soup = Unreadable THEN [items |-> <<>>, log |-> <<>>]
    ELSE LET dl == find_in(soup, 1, "dl")
         IN  IF dl = <<>> THEN [items |-> <<>>, log |-> <<>>]
             ELSE process_dl(NodeAt([children |-> soup], dl), dl)


\* -------------------------------------------------------------- serializer

RECURSIVE Replace(_, _, _)
\* str.replace(ch, repl) for a one-character ch.
Replace(text, ch, repl) ==
    IF text = <<>> THEN <<>>
    ELSE (IF Head(text) = ch THEN repl ELSE <<Head(text)>>)
         \o Replace(Tail(text), ch, repl)

AmpEntity == <<"&", "a", "m", "p", ";">>
LtEntity == <<"&", "l", "t", ";">>
GtEntity == <<"&", "g", "t", ";">>

\* escape_html with '<' replaced before '&': the ampersand of &lt; is escaped again.
escape_html_lt_first(text) ==
    Replace(Replace(Replace(text, "<", LtEntity), "&", AmpEntity), ">", GtEntity)

escape_html(text) ==
    Replace(Replace(Replace(text, "&", AmpEntity), "<", LtEntity), ">", GtEntity)

\* What is written to the file is a sequence of tokens: the tags the format
\* strings spell out, with the interpolated text kept as raw characters, in
\* the text between tags (s) and in the quoted attribute values.
TagOpen(nm, at) == [k |-> "start", name |-> nm, attrs |-> at, s |-> <<>>]
TagClose(nm) == [k |-> "end", name |-> nm, attrs |-> <<>>, s |-> <<>>]
Chars(s) == [k |-> "text", name |-> "", attrs |-> <<>>, s |-> s]
Markup(kind) == [k |-> kind, name |-> "", attrs |-> <<>>, s |-> <<>>]

Newline == <<"\n">>

\* "    " * indent_level
Indent(indent_level) == [i \in 1..(4 * indent_level) |-> " "]

\* ' NAME="{value}"' when the value is truthy, nothing otherwise.
OptAttr(nm, value) == IF Truthy(value) THEN <<<<nm, Str(value)>>>> ELSE <<>>

RECURSIVE write_items(_, _)
\* The f.write calls of write_items, in order: one sequence of tokens each.
write_items(items, indent_level) ==
    IF items = <<>> THEN <<>>
    ELSE LET item == Head(items)
             indent == Indent(indent_level)
             own ==
               IF item.type = "folder" THEN
                   << << Chars(indent), TagOpen("DT", <<>>),
                         TagOpen("H3", OptAttr("ADD_DATE", item.add_date)
                                       \o OptAttr("LAST_MODIFIED", item.last_modified)),
                         Chars(escape_html(item.title)), TagClose("H3"),
                         Chars(Newline) >>,
                      << Chars(indent), TagOpen("DL", <<>>), TagOpen("p", <<>>),
                         Chars(Newline) >> >>
                   \o write_items(item.children, indent_level + 1)
                   \o << << Chars(indent), TagClose("DL"), TagOpen("p", <<>>),
                            Chars(Newline) >> >>
               ELSE IF item.type = "bookmark" THEN
                   << << Chars(indent), TagOpen("DT", <<>>),
                         TagOpen("A", <<<<"HREF", Str(item.url)>>>>
                                      \o OptAttr("ADD_DATE", item.add_date)
                                      \o OptAttr("ICON", item.icon)),
                         Chars(escape_html(item.title)), TagClose("A"),
                         Chars(Newline) >> >>
               ELSE <<>>
         IN  own \o write_items(Tail(items), indent_level)

BookmarksText == <<"B", "o", "o", "k", "m", "a", "r", "k", "s">>

\* The header string of generate_netscape_html: one f.write call.
header ==
    << Markup("doctype"), Chars(Newline), Markup("comment"), Chars(Newline),
       TagOpen("META", <<>>), Chars(Newline),
       TagOpen("TITLE", <<>>), Chars(BookmarksText), TagClose("TITLE"), Chars(Newline),
       TagOpen("H1", <<>>), Chars(BookmarksText), TagClose("H1"), Chars(Newline),
       TagOpen("DL", <<>>), TagOpen("p", <<>>), Chars(Newline) >>

footer == << TagClose("DL"), TagOpen("p", <<>>) >>

\* The writes of generate_netscape_html between open and close, in order.
RenderWrites(bookmarks) == <<header>> \o write_items(bookmarks, 1) \o <<footer>>

\* ------------------------------------------------- the markup tree reader
\* BeautifulSoup(f, 'html.parser') on the tokens of a file: html.parser is a
\* tokenizer and closes nothing by itself, so an element stays open until its
\* own end tag or the end tag of an enclosing element.

Lower(nm) ==
    CASE nm = "DT" -> "dt" [] nm = "DL" -> "dl" [] nm = "H3" -> "h3"
      [] nm = "A" -> "a" [] nm = "META" -> "meta" [] nm = "TITLE" -> "title"
      [] nm = "H1" -> "h1" [] nm = "HREF" -> "href" [] nm = "ADD_DATE" -> "add_date"
      [] nm = "ICON" -> "icon" [] nm = "LAST_MODIFIED" -> "last_modified"
      [] OTHER -> nm

\* Elements that have no content: closed as soon as they are opened.
VoidElements == {"meta", "br", "hr", "img", "input", "link"}

Letters == {"a", "m", "p", "l", "t", "g", "u", "v", "N", "o", "n", "e", "x"}

RECURSIVE LetterRun(_, _)
\* The longest run of letters of s that starts at position i.
LetterRun(s, i) ==
    IF i > Len(s) \/ s[i] \notin Letters THEN <<>>
    ELSE <<s[i]>> \o LetterRun(s, i + 1)

\* handle_entityref: a known entity is its character; an unknown one is kept
\* as '&' and its name.  Of the table of entities, the three the serializer
\* writes.
EntityChar(nm) ==
    IF nm = <<"a", "m", "p">> THEN <<"&">>
    ELSE IF nm = <<"l", "t">> THEN <<"<">>
    ELSE IF nm = <<"g", "t">> THEN <<">">>
    ELSE <<"&">> \o nm

RECURSIVE SkipTag(_, _)
\* The position after the next '>' at or after i (after the end without one).
SkipTag(s, i) ==
    IF i > Len(s) THEN i ELSE IF s[i] = ">" THEN i + 1 ELSE SkipTag(s, i + 1)

RECURSIVE DecodeText(_, _)
\* The character data html.parser reports for the raw text s[i..] that stands
\* between two tags: '&name' is an entity reference (a following ';' belongs
\* to it), a '&' before anything else is data; '<' before a letter opens a tag,
\* which is no data, and before anything else is data.
DecodeText(s, i) ==
    IF i > Len(s) THEN <<>>
    ELSE IF s[i] = "&" THEN
        LET nm == LetterRun(s, i + 1)
            j == i + 1 + Len(nm)
        IN  IF nm = <<>> THEN <<"&">> \o DecodeText(s, i + 1)
            ELSE EntityChar(nm)
                 \o DecodeText(s, IF j <= Len(s) /\ s[j] = ";" THEN j + 1 ELSE j)
    ELSE IF s[i] = "<" THEN
        IF i + 1 <= Len(s) /\ s[i + 1] \in Letters
        THEN DecodeText(s, SkipTag(s, i + 1))
        ELSE <<"<">> \o DecodeText(s, i + 1)
    ELSE <<s[i]>> \o DecodeText(s, i + 1)

Whitespace == {" ", "\n"}

\* endData: a string of ASCII whitespace only becomes one newline if it holds
\* one, one space otherwise.
CollapseWs(s) ==
    IF s # <<>> /\ \A i \in 1..Len(s) : s[i] \in Whitespace
    THEN (IF \E i \in 1..Len(s) : s[i] = "\n" THEN <<"\n">> ELSE <<" ">>)
    ELSE s

RECURSIVE UpToQuote(_)
\* A quoted attribute value ends at the first double quote.
UpToQuote(raw) ==
    IF raw = <<>> \/ Head(raw) = "\"" THEN <<>>
    ELSE <<Head(raw)>> \o UpToQuote(Tail(raw))

\* Tag.get(key) on the attributes of a start tag: the value of the attribute
\* of that name (names are lowercased), None without one.
AttrGet(at, key) ==
    LET hits == {i \in 1..Len(at) : Lower(at[i][1]) = key}
    IN  IF hits = {} THEN None
        ELSE UpToQuote(at[CHOOSE i \in hits : \A j \in hits : i >= j][2])

ReadAttrs(at) ==
    [href |-> AttrGet(at, "href"), add_date |-> AttrGet(at, "add_date"),
     icon |-> AttrGet(at, "icon"), last_modified |-> AttrGet(at, "last_modified")]

\* The open elements, innermost last; data is the character data collected
\* since the last tag.  The first entry is the document itself.
AddChild(stack, node) ==
    [stack EXCEPT ![Len(stack)].children = Append(@, node)]

\* endData: the collected data becomes one string of the innermost element.
EndData(st) ==
    IF st.data = <<>> THEN st
    ELSE [stack |-> AddChild(st.stack, TextNode(CollapseWs(st.data))), data |-> <<>>]

RECURSIVE PopTo(_, _)
\* _popToTag: the open elements from the innermost down to position k are
\* closed, each becoming a child of the one that encloses it.
PopTo(stack, k) ==
    IF Len(stack) < k \/ Len(stack) <= 1 THEN stack
    ELSE PopTo(AddChild(SubSeq(stack, 1, Len(stack) - 1), stack[Len(stack)]), k)

\* The name under which a comment or a doctype is kept here: no tag name.
SpecialName == "#special"

\* One token fed to the tree builder in state st: character data is
\* collected; a tag first ends the collected data, then a start tag opens an
\* element (a void element is closed at once), an end tag closes the innermost
\* open element of its name and all that it encloses (none open: ignored), a
\* comment or doctype becomes a child of the innermost element.
FeedToken(tok, st) ==
    IF tok.k = "text" THEN [st EXCEPT !.data = @ \o DecodeText(tok.s, 1)]
    ELSE LET fl == EndData(st) IN
      IF tok.k = "start" THEN
          LET el == Elem(Lower(tok.name), ReadAttrs(tok.attrs), <<>>) IN
          IF el.name \in VoidElements
          THEN [fl EXCEPT !.stack = AddChild(@, el)]
          ELSE [fl EXCEPT !.stack = Append(@, el)]
      ELSE IF tok.k = "end" THEN
          LET open == {k \in 2..Len(fl.stack) : fl.stack[k].name = Lower(tok.name)} IN
          IF open = {} THEN fl
          ELSE [fl EXCEPT !.stack =
                   PopTo(@, CHOOSE k \in open : \A j \in open : k >= j)]
      ELSE [fl EXCEPT !.stack = AddChild(@, Elem(SpecialName, NoAttrs, <<>>))]

RECURSIVE Feed(_, _, _, _)
\* The tokens lo..hi fed in order to the tree builder in state st (the range
\* is halved, which keeps the evaluation shallow).
Feed(tokens, lo, hi, st) ==
    IF lo > hi THEN st
    ELSE IF lo = hi THEN FeedToken(tokens[lo], st)
    ELSE LET mid == (lo + hi) \div 2
             half == Feed(tokens, lo, mid, st)
         IN  IF Len(half.stack) > 0 THEN Feed(tokens, mid + 1, hi, half) ELSE half

\* The document BeautifulSoup builds: the sequence of its top-level nodes.
BeautifulSoup(tokens) ==
    LET st == Feed(tokens, 1, Len(tokens),
                   [stack |-> <<Elem("[document]", NoAttrs, <<>>)>>, data |-> <<>>])
    IN  PopTo(EndData(st).stack, 2)[1].children


\* ---------------------------------------------------------- bookmark trees

Bookmark(t, u, ad, ic) ==
    [type |-> "bookmark", title |-> t, url |-> u, add_date |-> ad, icon |-> ic]

Folder(t, ad, lm, kids) ==
    [type |-> "folder", title |-> t, add_date |-> ad, last_modified |-> lm,
     children |-> kids]

RECURSIVE CountBookmarks(_)
\* The bookmarks of a tree, at every depth.
CountBookmarks(items) ==
    IF items = <<>> THEN 0
    ELSE (IF Head(items).type = "folder" THEN CountBookmarks(Head(items).children)
          ELSE 1)
         + CountBookmarks(Tail(items))

RECURSIVE CountNodes(_)
\* The folders and bookmarks of a tree, at every depth.
CountNodes(items) ==
    IF items = <<>> THEN 0
    ELSE 1 + (IF Head(items).type = "folder" THEN CountNodes(Head(items).children)
              ELSE 0)
         + CountNodes(Tail(items))

RECURSIVE Located(_, _)
\* The bookmarks of a tree, each with the titles of the folders above it.
Located(items, path) ==
    IF items = <<>> THEN {}
    ELSE (IF Head(items).type = "folder"
          THEN Located(Head(items).children, Append(path, Head(items).title))
          ELSE {[path |-> path, url |-> Head(items).url, title |-> Head(items).title]})
         \cup Located(Tail(items), path)

RECURSIVE ListAt(_, _)
\* The list of children reached from the top-level list by the positions in
\* where: the list a recursive_merge call has as its target.
ListAt(items, where) ==
    IF where = <<>> THEN items
    ELSE ListAt(items[Head(where)].children, Tail(where))

RECURSIVE SetListAt(_, _, _)
\* The tree with the list at where replaced by list.
SetListAt(items, where, list) ==
    IF where = <<>> THEN list
    ELSE [items EXCEPT ![Head(where)].children = SetListAt(@, Tail(where), list)]

\* ------------------------------------------------------------------ merge

\* get_key with the URL taken for the whole key whenever it is selected.
get_key_url_dominant(item, path, cf, cu, ct) ==
    IF cu THEN <<item.url>>
    ELSE (IF cf THEN <<path>> ELSE <<>>) \o (IF ct THEN <<item.title>> ELSE <<>>)

\* get_key with the title always part of the key.
get_key_always_title(item, path, cf, cu, ct) ==
    (IF cf THEN <<path>> ELSE <<>>) \o (IF cu THEN <<item.url>> ELSE <<>>)
    \o <<item.title>>

\* get_key: the tuple of the selected components, in the order folder, url, title.
get_key(item, path, cf, cu, ct) ==
    (IF cf THEN <<path>> ELSE <<>>) \o (IF cu THEN <<item.url>> ELSE <<>>)
    \o (IF ct THEN <<item.title>> ELSE <<>>)

\* The folder search of recursive_merge that gives up after the first sibling.
find_folder_first_only(target, folder_title) ==
    IF target # <<>> /\ target[1].type = "folder" /\ target[1].title = folder_title
    THEN 1 ELSE 0

\* The folder search of recursive_merge: the position in target of the first
\* folder titled folder_title, 0 when there is none (found = None).
find_folder(target, folder_title) ==
    LET hits == {i \in 1..Len(target) :
                    target[i].type = "folder" /\ target[i].title = folder_title}
    IN  IF hits = {} THEN 0 ELSE CHOOSE i \in hits : \A j \in hits : i <= j

\* target.insert(0, item) in the place of target.append(item).
insert_bookmark_first(target, item) == <<item>> \o target

\* target.append(item) for a bookmark.
append_bookmark(target, item) == Append(target, item)

\* The duplicate counter left as it is.
count_duplicate_forgotten(n) == n

\* duplicate_count += 1
count_duplicate(n) == n + 1

\* The check of merge_bookmarks left out.
criteria_missing_unchecked(rd, cf, ct, cu) == FALSE

\* remove_duplicates and not (crit_folder or crit_title or crit_url)
criteria_missing(rd, cf, ct, cu) == rd /\ ~(cf \/ ct \/ cu)


\* ------------------------------------------------------------------ state

VARIABLES
    file_list,          \* self.file_list (the list widget shows the same paths)
    chk_deduplicate,    \* the "Remove Duplicates" checkbox
    chk_crit_folder,    \* the "By Folder" checkbox
    chk_crit_title,     \* the "By Title" checkbox
    chk_crit_url,       \* the "By URL" checkbox
    message,            \* the message box the last handler showed, if any
    last_event,         \* the handler that ran last
    disk,               \* the parsed markup of each input file
    out_file,           \* the file at save_path: whether it exists, what it holds
    out_before,         \* the file at save_path as merge_bookmarks found it
    pc,                 \* where merge_bookmarks stands
    remove_duplicates, crit_folder, crit_title, crit_url,  \* its locals
    seen_keys, merged_bookmarks, duplicate_count,
    file_pos,           \* the next file of 'for file_path in self.file_list'
    stack,              \* the calls of recursive_merge in progress
    sources,            \* what parse_bookmarks returned, file by file
    write_pos,          \* the next write of generate_netscape_html
    result,             \* what generate_netscape_html returned
    soup, root_bookmarks, parse_log   \* a parse_bookmarks call and its outcome

gui == <<file_list, chk_deduplicate, chk_crit_folder, chk_crit_title, chk_crit_url>>
locals == <<remove_duplicates, crit_folder, crit_title, crit_url>>
merging == <<seen_keys, merged_bookmarks, duplicate_count, file_pos, stack, sources>>
parsing == <<soup, root_bookmarks, parse_log>>
vars == <<gui, message, last_event, disk, out_file, out_before, pc, locals, merging,
          write_pos, result, parsing>>

Files == {"f1", "f2"}

\* The position of a path in the order the file dialog lists them.
FileName(i) == IF i = 1 THEN "f1" ELSE "f2"

Absent == [exists |-> FALSE, data |-> <<>>]
OldContent == [exists |-> TRUE, data |-> <<Chars(<<"o", "l", "d">>)>>]

\* A file as a browser, or this program, exports the tree t.
Export(t) == BeautifulSoup(Flatten(RenderWrites(t)))

NoLocals ==
    /\ remove_duplicates = FALSE /\ crit_folder = FALSE
    /\ crit_title = FALSE /\ crit_url = FALSE
NoMerge ==
    /\ seen_keys = {} /\ merged_bookmarks = <<>> /\ duplicate_count = 0
    /\ file_pos = 1 /\ stack = <<>> /\ sources = <<>>
NoParse == soup = <<>> /\ root_bookmarks = <<>> /\ parse_log = <<>>

\* --------------------------------------------- merge_bookmarks, step by step

\* parse_bookmarks(file_path) and the call recursive_merge(merged_bookmarks,
\* bookmarks) of the loop over self.file_list.
ParseNextFile ==
    /\ pc = "merge" /\ stack = <<>> /\ file_pos <= Len(file_list)
    /\ LET bookmarks == parse_bookmarks(disk[file_list[file_pos]]).items
       IN  /\ stack' = <<[source |-> bookmarks, i |-> 1, target |-> <<>>,
                          current_path |-> <<>>]>>
           /\ sources' = Append(sources, bookmarks)
    /\ file_pos' = file_pos + 1
    /\ UNCHANGED <<gui, message, last_event, disk, out_file, out_before, pc, locals,
                   seen_keys, merged_bookmarks, duplicate_count, write_pos, result,
                   parsing>>

Top == stack[Len(stack)]
AtItem == pc = "merge" /\ stack # <<>> /\ Top.i <= Len(Top.source)
Item == Top.source[Top.i]
Advanced == [stack EXCEPT ![Len(stack)].i = @ + 1]

\* One folder of the source list: merged into the folder of that title when
\* the target has one, into a new folder appended to the target otherwise.
MergeFolder ==
    /\ AtItem /\ Item.type = "folder"
    /\ LET target == ListAt(merged_bookmarks, Top.target)
           folder_title == Item.title
           found == find_folder(target, folder_title)
           call(at) == [source |-> Item.children, i |-> 1,
                        target |-> Append(Top.target, at),
                        current_path |-> Append(Top.current_path, folder_title)]
       IN  \/ /\ found # 0
              /\ stack' = Append(Advanced, call(found))
              /\ UNCHANGED merged_bookmarks
           \/ /\ found = 0
              /\ merged_bookmarks' =
                     SetListAt(merged_bookmarks, Top.target,
                               Append(target, Folder(folder_title, Item.add_date,
                                                     Item.last_modified, <<>>)))
              /\ stack' = Append(Advanced, call(Len(target) + 1))
    /\ UNCHANGED <<gui, message, last_event, disk, out_file, out_before, pc, locals,
                   seen_keys, duplicate_count, file_pos, sources, write_pos, result,
                   parsing>>

\* One bookmark of the source list: appended, unless duplicates are removed
\* and its key was seen.
MergeBookmark ==
    /\ AtItem /\ Item.type = "bookmark"
    /\ LET target == ListAt(merged_bookmarks, Top.target)
           key == get_key(Item, Top.current_path, crit_folder, crit_url, crit_title)
           appended == SetListAt(merged_bookmarks, Top.target,
                                 append_bookmark(target, Item))
       IN  \/ /\ remove_duplicates /\ key \in seen_keys
              /\ duplicate_count' = count_duplicate(duplicate_count)
              /\ UNCHANGED <<seen_keys, merged_bookmarks>>
           \/ /\ remove_duplicates /\ key \notin seen_keys
              /\ seen_keys' = seen_keys \cup {key}
              /\ merged_bookmarks' = appended
              /\ UNCHANGED duplicate_count
           \/ /\ ~remove_duplicates
              /\ merged_bookmarks' = appended
              /\ UNCHANGED <<seen_keys, duplicate_count>>
    /\ stack' = Advanced
    /\ UNCHANGED <<gui, message, last_event, disk, out_file, out_before, pc, locals,
                   file_pos, sources, write_pos, result, parsing>>

\* The end of a source list: the call of recursive_merge returns.
ReturnFromMerge ==
    /\ pc = "merge" /\ stack # <<>> /\ Top.i > Len(Top.source)
    /\ stack' = SubSeq(stack, 1, Len(stack) - 1)
    /\ UNCHANGED <<gui, message, last_event, disk, out_file, out_before, pc, locals,
                   seen_keys, merged_bookmarks, duplicate_count, file_pos, sources,
                   write_pos, result, parsing>>

\* The loop over the files is over: generate_netscape_html is called.
FinishMerge ==
    /\ pc = "merge" /\ stack = <<>> /\ file_pos > Len(file_list)
    /\ pc' = "generate"
    /\ UNCHANGED <<gui, message, last_event, disk, out_file, out_before, locals,
                   merging, write_pos, result, parsing>>

\* open(output_file, 'w'): the file is created, or cut to nothing, at once; or
\* the open fails and the function returns str(e).
OpenOutput ==
    /\ pc = "generate"
    /\ \/ /\ out_file' = [exists |-> TRUE, data |-> <<>>]
          /\ write_pos' = 1
          /\ pc' = "write"
          /\ UNCHANGED result
       \/ /\ result' = "error"
          /\ pc' = "report"
          /\ UNCHANGED <<out_file, write_pos>>
    /\ UNCHANGED <<gui, message, last_event, disk, out_before, locals, merging,
                   parsing>>

\* One f.write of the header, of write_items or of the footer: it succeeds, or
\* it raises and the function returns str(e) with the file as written so far.
WriteOutput ==
    /\ pc = "write" /\ write_pos <= Len(RenderWrites(merged_bookmarks))
    /\ \/ /\ out_file' = [out_file EXCEPT
                             !.data = @ \o RenderWrites(merged_bookmarks)[write_pos]]
          /\ write_pos' = write_pos + 1
          /\ UNCHANGED <<pc, result>>
       \/ /\ result' = "error"
          /\ pc' = "report"
          /\ UNCHANGED <<out_file, write_pos>>
    /\ UNCHANGED <<gui, message, last_event, disk, out_before, locals, merging,
                   parsing>>

\* All is written: generate_netscape_html returns True.
CloseOutput ==
    /\ pc = "write" /\ write_pos > Len(RenderWrites(merged_bookmarks))
    /\ result' = "True"
    /\ pc' = "report"
    /\ UNCHANGED <<gui, message, last_event, disk, out_file, out_before, locals,
                   merging, write_pos, parsing>>

\* The message box that ends merge_bookmarks; its locals are gone with it.
Report ==
    /\ pc = "report"
    /\ message' = IF result = "True" THEN "Success" ELSE "Error"
    /\ pc' = "idle"
    /\ remove_duplicates' = FALSE /\ crit_folder' = FALSE
    /\ crit_title' = FALSE /\ crit_url' = FALSE
    /\ seen_keys' = {} /\ merged_bookmarks' = <<>> /\ duplicate_count' = 0
    /\ file_pos' = 1 /\ stack' = <<>> /\ sources' = <<>>
    /\ write_pos' = 1 /\ result' = "none"
    /\ UNCHANGED <<gui, last_event, disk, out_file, out_before, parsing>>


\* ------------------------------------------------------------ the handlers
\* A handler runs from start to end before the next one starts: they are
\* enabled only while no merge_bookmarks is under way.  (A handler run from
\* inside QApplication.processEvents() is not part of the model.)

RECURSIVE AppendNew(_, _)
\* 'for f in files: if f not in self.file_list: self.file_list.append(f)'
AppendNew(list, files) ==
    IF files = <<>> THEN list
    ELSE AppendNew(IF \E i \in 1..Len(list) : list[i] = Head(files)
                   THEN list ELSE Append(list, Head(files)),
                   Tail(files))

RECURSIVE Without(_, _, _)
\* The rows of list from i on that are not selected.
Without(list, selected, i) ==
    IF i > Len(list) THEN <<>>
    ELSE (IF i \in selected THEN <<>> ELSE <<list[i]>>) \o Without(list, selected, i + 1)

\* What the file dialog can return: no path, one path, or both in either order.
Picks == {<<>>} \cup {<<f>> : f \in Files}
         \cup {fg \in Files \X Files : fg[1] # fg[2]}

add_files(files) ==
    /\ pc = "idle"
    /\ file_list' = AppendNew(file_list, files)
    /\ last_event' = "add_files" /\ message' = "none"
    /\ UNCHANGED <<chk_deduplicate, chk_crit_folder, chk_crit_title, chk_crit_url,
                   disk, out_file, out_before, pc, locals, merging,
                   write_pos, result, parsing>>

remove_files(selected) ==
    /\ pc = "idle"
    /\ file_list' = IF selected = {} THEN file_list ELSE Without(file_list, selected, 1)
    /\ last_event' = "remove_files" /\ message' = "none"
    /\ UNCHANGED <<chk_deduplicate, chk_crit_folder, chk_crit_title, chk_crit_url,
                   disk, out_file, out_before, pc, locals, merging,
                   write_pos, result, parsing>>

clear_list ==
    /\ pc = "idle"
    /\ file_list' = <<>>
    /\ last_event' = "clear_list" /\ message' = "none"
    /\ UNCHANGED <<chk_deduplicate, chk_crit_folder, chk_crit_title, chk_crit_url,
                   disk, out_file, out_before, pc, locals, merging,
                   write_pos, result, parsing>>

\* A click on "Remove Duplicates": toggle_criteria enables the criteria
\* exactly while the box is checked.
toggle_criteria ==
    /\ pc = "idle"
    /\ chk_deduplicate' = ~chk_deduplicate
    /\ last_event' = "toggle_criteria" /\ message' = "none"
    /\ UNCHANGED <<file_list, chk_crit_folder, chk_crit_title, chk_crit_url,
                   disk, out_file, out_before, pc, locals, merging,
                   write_pos, result, parsing>>

\* A click on one of the criteria, which are enabled while "Remove
\* Duplicates" is checked.
click_criterion(which) ==
    /\ pc = "idle" /\ chk_deduplicate
    /\ chk_crit_folder' = IF which = "folder" THEN ~chk_crit_folder ELSE chk_crit_folder
    /\ chk_crit_title' = IF which = "title" THEN ~chk_crit_title ELSE chk_crit_title
    /\ chk_crit_url' = IF which = "url" THEN ~chk_crit_url ELSE chk_crit_url
    /\ last_event' = "click_criterion" /\ message' = "none"
    /\ UNCHANGED <<file_list, chk_deduplicate, disk, out_file, out_before,
                   pc, locals, merging, write_pos, result, parsing>>

\* merge_bookmarks up to 'Merging...': the two checks, the save dialog (which
\* names a file that exists or not), and the fresh seen_keys, merged_bookmarks
\* and duplicate_count.
merge_bookmarks ==
    /\ pc = "idle"
    /\ last_event' = "merge_bookmarks"
    /\ \/ /\ file_list = <<>>
          /\ message' = "No Files"
          /\ UNCHANGED <<pc, locals, out_file>>
       \/ /\ file_list # <<>>
          /\ criteria_missing(chk_deduplicate, chk_crit_folder, chk_crit_title,
                              chk_crit_url)
          /\ message' = "Criteria Missing"
          /\ UNCHANGED <<pc, locals, out_file>>
       \/ /\ file_list # <<>>
          /\ ~criteria_missing(chk_deduplicate, chk_crit_folder, chk_crit_title,
                               chk_crit_url)
          \* the save dialog is cancelled: 'if not save_path: return'
          /\ message' = "none"
          /\ UNCHANGED <<pc, locals, out_file>>
       \/ /\ file_list # <<>>
          /\ ~criteria_missing(chk_deduplicate, chk_crit_folder, chk_crit_title,
                               chk_crit_url)
          /\ out_file' \in {Absent, OldContent}
          /\ message' = "none"
          /\ remove_duplicates' = chk_deduplicate
          /\ crit_folder' = chk_crit_folder
          /\ crit_title' = chk_crit_title
          /\ crit_url' = chk_crit_url
          /\ pc' = "merge"
    /\ out_before' = out_file'
    /\ UNCHANGED <<gui, disk, seen_keys, merged_bookmarks, duplicate_count,
                   file_pos, stack, sources, write_pos, result, parsing>>

\* ------------------------------------------------------- the application

\* The input files of the application's runs.
SampleTreeA == << Bookmark(<<"x">>, <<"u">>, None, None) >>
SampleTreeB ==
    << Folder(<<"l">>, None, None, <<Bookmark(<<"y">>, <<"u">>, None, None)>>) >>

\* The state after construction (__init__, initUI), with the files on disk and
\* the destination as the user has them.
Init ==
    /\ file_list = <<>>
    /\ chk_deduplicate = TRUE /\ chk_crit_folder = FALSE
    /\ chk_crit_title = FALSE /\ chk_crit_url = TRUE
    /\ message = "none" /\ last_event = "none"
    /\ disk \in {[f \in Files |-> IF f = "f1" THEN Export(SampleTreeA) ELSE d] :
                    d \in {Export(SampleTreeB), Unreadable}}
    /\ out_file = Absent /\ out_before = Absent
    /\ pc = "idle"
    /\ NoLocals /\ NoMerge /\ write_pos = 1 /\ result = "none" /\ NoParse

Next ==
    \/ \E files \in Picks : add_files(files)
    \/ \E selected \in SUBSET (1..Len(file_list)) : remove_files(selected)
    \/ clear_list
    \/ toggle_criteria
    \/ \E which \in {"folder", "title", "url"} : click_criterion(which)
    \/ merge_bookmarks
    \/ ParseNextFile \/ MergeFolder \/ MergeBookmark \/ ReturnFromMerge
    \/ FinishMerge \/ OpenOutput \/ WriteOutput \/ CloseOutput \/ Report

Spec == Init /\ [][Next]_vars


\* ------------------------------------------------------ the merge, alone
\* merge_bookmarks from the point where its checks have passed, for every
\* pair of input files with at most MaxNodes folders and bookmarks each and
\* every configuration that passes the checks.

RECURSIVE ItemForests(_, _, _)
\* The trees of exactly n folders and bookmarks, with bookmarks from bms and
\* folder titles from fts.
ItemForests(n, bms, fts) ==
    IF n = 0 THEN {<<>>}
    ELSE {<<b>> \o rest : b \in bms, rest \in ItemForests(n - 1, bms, fts)}
         \cup UNION {
              {<<Folder(t, None, None, kids)>> \o rest :
                   t \in fts, kids \in ItemForests(k, bms, fts),
                   rest \in ItemForests(n - 1 - k, bms, fts)} : k \in 0..(n - 1)}

MergeBookmarks ==
    { Bookmark(<<"x">>, <<"u">>, None, None), Bookmark(<<"y">>, <<"u">>, None, None),
      Bookmark(<<"x">>, <<"v">>, None, None) }
MergeFolderTitles == {<<"l">>, <<"t">>}

MergeTrees == UNION {ItemForests(n, MergeBookmarks, MergeFolderTitles) : n \in 0..MaxNodes}

RECURSIVE WellNested(_)
\* The definition terms of a file in which every element is closed where the
\* format means it to be.
WellNested(items) ==
    IF items = <<>> THEN <<>>
    ELSE LET item == Head(items)
             label(s) == IF s = <<>> THEN <<>> ELSE <<TextNode(s)>>
             dt == IF item.type = "folder"
                   THEN Elem("dt", NoAttrs,
                             << Elem("h3", [NoAttrs EXCEPT !.add_date = item.add_date,
                                               !.last_modified = item.last_modified],
                                     label(item.title)),
                                Elem("dl", NoAttrs, WellNested(item.children)) >>)
                   ELSE Elem("dt", NoAttrs,
                             << Elem("a", [NoAttrs EXCEPT !.href = item.url,
                                              !.add_date = item.add_date,
                                              !.icon = item.icon],
                                     label(item.title)) >>)
         IN  <<dt>> \o WellNested(Tail(items))

WellNestedFile(t) == <<Elem("dl", NoAttrs, WellNested(t))>>

\* The configurations that pass the check of merge_bookmarks.
Configs ==
    {c \in [rd : BOOLEAN, cf : BOOLEAN, ct : BOOLEAN, cu : BOOLEAN] :
        /\ ~criteria_missing(c.rd, c.cf, c.ct, c.cu)
        /\ (~c.rd => ~c.cf /\ ~c.ct /\ c.cu)}

InitMerge ==
    /\ file_list = <<"f1", "f2">>
    /\ \E c \in Configs :
          /\ chk_deduplicate = c.rd /\ chk_crit_folder = c.cf
          /\ chk_crit_title = c.ct /\ chk_crit_url = c.cu
          /\ remove_duplicates = c.rd /\ crit_folder = c.cf
          /\ crit_title = c.ct /\ crit_url = c.cu
    /\ \E t1 \in MergeTrees, t2 \in MergeTrees :
          disk = [f \in Files |-> IF f = "f1" THEN WellNestedFile(t1)
                                  ELSE WellNestedFile(t2)]
    /\ message = "none" /\ last_event = "merge_bookmarks"
    /\ out_file = Absent /\ out_before = Absent
    /\ pc = "merge"
    /\ NoMerge /\ write_pos = 1 /\ result = "none" /\ NoParse

NextMerge ==
    ParseNextFile \/ MergeFolder \/ MergeBookmark \/ ReturnFromMerge \/ FinishMerge

SpecMerge == InitMerge /\ [][NextMerge]_vars

\* -------------------------------------------------- the extraction, alone
\* parse_bookmarks on every document of at most MaxElems elements.

\* The headings and links of the enumerated documents.
Leaves ==
    { Elem("h3", NoAttrs, <<TextNode(<<"l">>)>>),
      Elem("a", NoAttrs, <<TextNode(<<"x">>)>>),
      Elem("a", [NoAttrs EXCEPT !.href = <<>>], <<TextNode(<<"x">>)>>),
      Elem("a", [NoAttrs EXCEPT !.href = <<"u">>], <<TextNode(<<"x">>)>>) }

RECURSIVE MarkupTrees(_), MarkupForests(_)
\* The markup trees of exactly n elements: a heading or a link, or a dl, dt
\* or p around any sequence of trees.
MarkupTrees(n) ==
    (IF n = 1 THEN Leaves ELSE {})
    \cup {Elem(nm, NoAttrs, kids) : nm \in {"dl", "dt", "p"}, kids \in MarkupForests(n - 1)}

\* The sequences of markup trees with exactly n elements in all.
MarkupForests(n) ==
    IF n = 0 THEN {<<>>}
    ELSE UNION {{<<t>> \o rest : t \in MarkupTrees(k), rest \in MarkupForests(n - k)} :
                   k \in 1..n}

InitExtract ==
    /\ \E n \in 1..MaxElems : \E t \in MarkupTrees(n) : soup = <<t>>
    /\ root_bookmarks = <<>> /\ parse_log = <<>>
    /\ pc = "parse"
    /\ file_list = <<>>
    /\ chk_deduplicate = TRUE /\ chk_crit_folder = FALSE
    /\ chk_crit_title = FALSE /\ chk_crit_url = TRUE
    /\ message = "none" /\ last_event = "none"
    /\ disk = [f \in Files |-> Unreadable]
    /\ out_file = Absent /\ out_before = Absent
    /\ NoLocals /\ NoMerge /\ write_pos = 1 /\ result = "none"

\* parse_bookmarks on the document.
ParseDocument ==
    /\ pc = "parse"
    /\ root_bookmarks' = parse_bookmarks(soup).items
    /\ parse_log' = parse_bookmarks(soup).log
    /\ pc' = "parsed"
    /\ UNCHANGED <<gui, message, last_event, disk, out_file, out_before, locals,
                   merging, write_pos, result, soup>>

NextExtract == ParseDocument

SpecExtract == InitExtract /\ [][NextExtract]_vars

\* ----------------------------------------------- written and read back
\* generate_netscape_html on a tree, and parse_bookmarks on the file written.

TitleChars == {"&", "<", ">", "l", "t", ";", " "}

RECURSIVE Strings(_, _)
\* The strings of exactly n characters from chars.
Strings(n, chars) ==
    IF n = 0 THEN {<<>>}
    ELSE {<<c>> \o rest : c \in chars, rest \in Strings(n - 1, chars)}

Titles == UNION {Strings(n, TitleChars) : n \in 0..MaxTitleLen}

OptionalValues == {None, <<>>, <<"1">>}
Urls == {None, <<>>, <<"u">>, <<"u", "\"", "v">>}

WrittenTrees ==
    UNION {ItemForests(n, {Bookmark(<<"x">>, <<"u">>, <<"1">>, None)}, {<<"l">>}) :
              n \in 0..MaxWritten}
    \cup {<<Bookmark(t, <<"u">>, None, None)>> : t \in Titles}
    \cup {<<Folder(t, None, None, <<>>)>> : t \in Titles}
    \cup {<<Bookmark(<<"x">>, u, ad, ic)>> :
             u \in Urls, ad \in OptionalValues, ic \in OptionalValues}
    \cup {<<Folder(<<"l">>, ad, lm, <<Bookmark(<<"x">>, <<"u">>, None, None)>>)>> :
             ad \in OptionalValues, lm \in OptionalValues}

InitRoundTrip ==
    /\ merged_bookmarks \in WrittenTrees
    /\ pc = "generate"
    /\ file_list = <<"f1">>
    /\ chk_deduplicate = FALSE /\ chk_crit_folder = FALSE
    /\ chk_crit_title = FALSE /\ chk_crit_url = TRUE
    /\ message = "none" /\ last_event = "merge_bookmarks"
    /\ disk = [f \in Files |-> Unreadable]
    /\ out_file = Absent /\ out_before = Absent
    /\ NoLocals
    /\ seen_keys = {} /\ duplicate_count = 0 /\ file_pos = 2 /\ stack = <<>>
    /\ sources = <<>>
    /\ write_pos = 1 /\ result = "none" /\ NoParse

\* The file just written is read: BeautifulSoup on its text, then
\* parse_bookmarks.
ReadBack ==
    /\ pc = "report" /\ result = "True"
    /\ soup' = BeautifulSoup(out_file.data)
    /\ root_bookmarks' = parse_bookmarks(BeautifulSoup(out_file.data)).items
    /\ parse_log' = parse_bookmarks(BeautifulSoup(out_file.data)).log
    /\ pc' = "parsed"
    /\ UNCHANGED <<gui, message, last_event, disk, out_file, out_before, locals,
                   merging, write_pos, result>>

NextRoundTrip == OpenOutput \/ WriteOutput \/ CloseOutput \/ ReadBack

SpecRoundTrip == InitRoundTrip /\ [][NextRoundTrip]_vars


\* ================================================================ properties

\* ---------------------------------------------------- of the application

\* The click on "Merge" finds "Remove Duplicates" checked and no criterion
\* checked.
ClickWithoutCriteria ==
    /\ pc = "idle" /\ last_event' = "merge_bookmarks"
    /\ chk_deduplicate /\ ~chk_crit_folder /\ ~chk_crit_title /\ ~chk_crit_url

\* Nothing is read, nothing is merged, and the destination is as it was.
NoWorkDone ==
    /\ pc' = "idle"
    /\ UNCHANGED <<disk, out_file, merging, parsing, write_pos, result>>
    /\ out_before' = out_file

\* C4, as the code has it: merge_bookmarks invoked with duplicates removed and
\* no criterion selected returns at once, having read no file, merged nothing
\* and left the destination alone; what it reports is the missing criteria
\* when at least one file is listed, and the missing files when none is.
C4_RejectedBeforeAnyWork ==
    [][ClickWithoutCriteria =>
          /\ NoWorkDone
          /\ message' = IF file_list = <<>> THEN "No Files" ELSE "Criteria Missing"]_vars

\* A merge was refused for its missing criteria, with files listed.
C4_Refused ==
    /\ last_event = "merge_bookmarks" /\ pc = "idle"
    /\ message = "Criteria Missing" /\ file_list # <<>>
    /\ chk_deduplicate /\ ~chk_crit_folder /\ ~chk_crit_title /\ ~chk_crit_url

\* C4 as stated: the report is the missing criteria whatever the file list.
C4_AlwaysCriteriaMissing ==
    [][ClickWithoutCriteria => NoWorkDone /\ message' = "Criteria Missing"]_vars

\* C5 as stated: when generate_netscape_html returns an error, the destination
\* is what it was when merge_bookmarks began.
C5_DestinationKeptOnError ==
    (pc = "report" /\ result = "error") => out_file = out_before

\* ------------------------------------------------------ of the extraction

RECURSIVE Listed(_, _)
\* The bookmarks of a tree in document order, each with the titles of the
\* folders above it.
Listed(items, path) ==
    IF items = <<>> THEN <<>>
    ELSE (IF Head(items).type = "folder"
          THEN Listed(Head(items).children, Append(path, Head(items).title))
          ELSE <<[path |-> path, url |-> Head(items).url, title |-> Head(items).title]>>)
         \o Listed(Tail(items), path)

\* C1 as stated: no bookmark of the extracted tree, at any depth, has a
\* missing or empty url.
C1_NoBookmarkWithoutUrl ==
    pc = "parsed" =>
        \A i \in 1..Len(Listed(root_bookmarks, <<>>)) :
            Truthy(Listed(root_bookmarks, <<>>)[i].url)

\* The element of the document at a path of the history.
Element(path) == NodeAt([children |-> soup], path)

\* The history names no element twice.
NothingTwice ==
    \A i, j \in 1..Len(parse_log) : parse_log[i] = parse_log[j] => i = j

\* The headings and links of the history that yielded an item.
Yielding == {i \in 1..Len(parse_log) : parse_log[i][1] = "node"}

\* C9: after the extraction of a document, mis-nested or not, no heading, link
\* or definition list was consumed twice, and the extracted tree has one
\* node for each heading or link consumed, so that none yielded two.
C9_NoElementTwice ==
    pc = "parsed" =>
        /\ NothingTwice
        /\ Cardinality(Yielding) = CountNodes(root_bookmarks)

\* The re-scan of process_dt has found a definition term buried in another
\* and extracted a node from it.
C9_BuriedTermExtracted ==
    /\ pc = "parsed"
    /\ \E i \in Yielding :
          LET p == parse_log[i][2]
          IN  /\ Len(p) >= 3
              /\ Element(SubSeq(p, 1, Len(p) - 1)).name = "dt"
              /\ Element(SubSeq(p, 1, Len(p) - 2)).name = "dt"

\* ----------------------------------------------------------- of the merge

RECURSIVE NoTwinFolders(_)
\* No two folders of one list of children carry the same title, at any depth.
NoTwinFolders(items) ==
    /\ \A i, j \in 1..Len(items) :
          (i < j /\ items[i].type = "folder" /\ items[j].type = "folder")
              => items[i].title # items[j].title
    /\ \A i \in 1..Len(items) :
          items[i].type = "folder" => NoTwinFolders(items[i].children)

\* C2: at every point of a merge, whatever the sources and the configuration,
\* no list of children of the merged tree, the top level included, holds two
\* folders of the same title.
C2_OneFolderPerTitle == NoTwinFolders(merged_bookmarks)

\* Both files hold a top-level folder of one title, the second one with
\* children, and the merge is over.
C2_FolderMergedIntoExisting ==
    /\ pc = "generate" /\ Len(sources) = 2
    /\ \E i \in 1..Len(sources[1]), j \in 1..Len(sources[2]) :
          /\ sources[1][i].type = "folder" /\ sources[2][j].type = "folder"
          /\ sources[1][i].title = sources[2][j].title
          /\ sources[2][j].children # <<>>
          /\ \E k \in 1..Len(merged_bookmarks) :
                /\ merged_bookmarks[k].type = "folder"
                /\ merged_bookmarks[k].title = sources[2][j].title
                /\ Len(merged_bookmarks[k].children) >= 1

RECURSIVE TitlesAlong(_, _)
\* The titles of the folders passed on the way to the list at where.
TitlesAlong(items, where) ==
    IF where = <<>> THEN <<>>
    ELSE <<items[Head(where)].title>>
         \o TitlesAlong(items[Head(where)].children, Tail(where))

\* Two located bookmarks agree on every selected component.
Agree(a, b) ==
    /\ crit_folder => a.path = b.path
    /\ crit_url => a.url = b.url
    /\ crit_title => a.title = b.title

\* The source bookmark about to be merged, at its destination.
Arriving ==
    [path |-> TitlesAlong(merged_bookmarks, Top.target), url |-> Item.url,
     title |-> Item.title]

NoTwoAgree(list) ==
    \A i, j \in 1..Len(list) : i < j => ~Agree(list[i], list[j])

\* C3: with duplicates removed, a source bookmark is left out of the merged
\* tree exactly when a bookmark already in it agrees with it on every selected
\* component, the folder component being the titles of the folders above the
\* destination; and no two bookmarks of the merged tree agree on every
\* selected component.
C3_DiscardedIffSeenBefore ==
    /\ [][(AtItem /\ Item.type = "bookmark" /\ remove_duplicates) =>
            /\ (merged_bookmarks' = merged_bookmarks)
                  <=> (\E kept \in Located(merged_bookmarks, <<>>) : Agree(kept, Arriving))
            /\ (merged_bookmarks' # merged_bookmarks)
                  => CountBookmarks(merged_bookmarks') = CountBookmarks(merged_bookmarks) + 1
         ]_vars
    /\ [](remove_duplicates => NoTwoAgree(Listed(merged_bookmarks, <<>>)))

\* Under the criteria folder and URL together, one bookmark was discarded and
\* two were kept.
C3_DiscardedUnderTwoCriteria ==
    /\ remove_duplicates /\ crit_folder /\ crit_url /\ ~crit_title
    /\ duplicate_count >= 1 /\ CountBookmarks(merged_bookmarks) >= 2

\* The URLs of the bookmarks of a tree.
UrlsOf(items) == {b.url : b \in Located(items, <<>>)}

\* The merge of [T, T] by URL alone is over.
SameTreeTwiceByUrl ==
    /\ pc = "generate" /\ Len(sources) = 2 /\ sources[1] = sources[2]
    /\ remove_duplicates /\ crit_url /\ ~crit_folder /\ ~crit_title

\* C6, as the code has it: merging [T, T] by URL alone yields a tree whose
\* bookmark URLs are the URLs of T, and a duplicate count of twice the
\* bookmarks of T less the distinct URLs of T.
C6_SameTreeTwice ==
    SameTreeTwiceByUrl =>
        /\ UrlsOf(merged_bookmarks) = UrlsOf(sources[1])
        /\ CountBookmarks(merged_bookmarks) = Cardinality(UrlsOf(sources[1]))
        /\ duplicate_count =
               2 * CountBookmarks(sources[1]) - Cardinality(UrlsOf(sources[1]))

\* T holds two bookmarks of one URL.
C6_TreeWithRepeatedUrl ==
    /\ SameTreeTwiceByUrl
    /\ CountBookmarks(sources[1]) = 2 /\ Cardinality(UrlsOf(sources[1])) = 1

\* C6 as stated: the duplicate count is the number of bookmarks of T.
C6_CountIsSizeOfTree ==
    SameTreeTwiceByUrl =>
        /\ UrlsOf(merged_bookmarks) = UrlsOf(sources[1])
        /\ duplicate_count = CountBookmarks(sources[1])

RECURSIVE Grown(_, _)
\* The list new is the list old with items appended, here and in the folders
\* below: every item of old is at its position, a bookmark unchanged, a folder
\* with its title and attributes and with children grown in the same way.
Grown(old, new) ==
    /\ Len(old) <= Len(new)
    /\ \A i \in 1..Len(old) :
          IF old[i].type = "folder"
          THEN /\ new[i].type = "folder"
               /\ new[i].title = old[i].title
               /\ new[i].add_date = old[i].add_date
               /\ new[i].last_modified = old[i].last_modified
               /\ Grown(old[i].children, new[i].children)
          ELSE new[i] = old[i]

\* The top-level folders of a tree that are titled w.
FoldersTitled(items, w) ==
    {i \in 1..Len(items) : items[i].type = "folder" /\ items[i].title = w}

OnlyBookmarks(items) == \A i \in 1..Len(items) : items[i].type = "bookmark"

\* The merge of two files is over, and each of them holds one top-level
\* folder titled w, with bookmarks for children.
TwoFilesWithFolder(w) ==
    /\ pc = "generate" /\ Len(sources) = 2
    /\ \A k \in 1..2 :
          /\ Cardinality(FoldersTitled(sources[k], w)) = 1
          /\ \A i \in FoldersTitled(sources[k], w) : OnlyBookmarks(sources[k][i].children)

\* The children of the one top-level folder of a tree titled w.
ChildrenOf(items, w) == items[CHOOSE i \in FoldersTitled(items, w) : TRUE].children

\* The merged tree has one top-level folder titled w, holding the bookmarks of
\* the first file's folder followed by those of the second file's.
FirstThenSecond(w) ==
    /\ Cardinality(FoldersTitled(merged_bookmarks, w)) = 1
    /\ ChildrenOf(merged_bookmarks, w) =
           ChildrenOf(sources[1], w) \o ChildrenOf(sources[2], w)

Range(list) == {list[i] : i \in 1..Len(list)}

\* C8, as the code has it: every step of a merge leaves each list of children
\* of the merged tree, the top level included, a prefix of what it becomes,
\* every folder at its position; and the merge of two files that each hold one
\* top-level folder of a given title with bookmarks for children yields one
\* such folder holding the first file's bookmarks followed by the second
\* file's, when duplicates are kept or no two bookmarks of the two files agree
\* on every selected component.
C8_GrowsByAppending ==
    /\ [][Grown(merged_bookmarks, merged_bookmarks')]_vars
    /\ [](\A w \in MergeFolderTitles :
            (/\ TwoFilesWithFolder(w)
             /\ remove_duplicates =>
                   NoTwoAgree(Listed(sources[1], <<>>) \o Listed(sources[2], <<>>)))
                => FirstThenSecond(w))

\* Two files with a folder of one title and two bookmarks that differ on the
\* selected components were merged into one folder, with duplicates removed.
C8_FolderUnified ==
    /\ remove_duplicates
    /\ \E w \in MergeFolderTitles :
          /\ TwoFilesWithFolder(w)
          /\ FirstThenSecond(w)
          /\ Len(ChildrenOf(sources[1], w)) = 1 /\ Len(ChildrenOf(sources[2], w)) = 1

\* C8 as stated: the two folders need only hold disjoint sets of bookmarks.
C8_DisjointSetsSuffice ==
    /\ [][Grown(merged_bookmarks, merged_bookmarks')]_vars
    /\ [](\A w \in MergeFolderTitles :
            (/\ TwoFilesWithFolder(w)
             /\ Range(ChildrenOf(sources[1], w)) \cap Range(ChildrenOf(sources[2], w)) = {})
                => FirstThenSecond(w))

RECURSIVE SumBookmarks(_)
\* The bookmarks of a sequence of trees.
SumBookmarks(trees) ==
    IF trees = <<>> THEN 0 ELSE CountBookmarks(Head(trees)) + SumBookmarks(Tail(trees))

RECURSIVE Passed(_)
\* The bookmarks the calls of recursive_merge in progress have passed: in the
\* innermost call all items before the current one, in every other call all
\* items before the folder it is inside.
Passed(calls) ==
    IF calls = <<>> THEN 0
    ELSE LET call == Head(calls)
             done == IF Len(calls) = 1 THEN call.i - 1 ELSE call.i - 2
         IN  CountBookmarks(SubSeq(call.source, 1, done)) + Passed(Tail(calls))

\* The source bookmarks processed so far.
Processed ==
    IF stack = <<>> THEN SumBookmarks(sources)
    ELSE SumBookmarks(SubSeq(sources, 1, Len(sources) - 1)) + Passed(stack)

Occurrences(list, x) == Cardinality({i \in 1..Len(list) : list[i] = x})

RECURSIVE ListedAll(_)
\* The located bookmarks of a sequence of trees.
ListedAll(trees) ==
    IF trees = <<>> THEN <<>> ELSE Listed(Head(trees), <<>>) \o ListedAll(Tail(trees))

\* C10: at every point of a merge the bookmarks of the merged tree and the
\* duplicate counter add up to the source bookmarks processed so far, and at
\* its end to the bookmarks of all sources; with duplicates kept the counter
\* stays 0 and the merged tree ends with every source bookmark, as often as
\* the sources hold it at that place.
C10_BookmarksConserved ==
    /\ CountBookmarks(merged_bookmarks) + duplicate_count = Processed
    /\ pc = "generate" =>
          CountBookmarks(merged_bookmarks) + duplicate_count = SumBookmarks(sources)
    /\ ~remove_duplicates =>
          /\ duplicate_count = 0
          /\ pc = "generate" =>
                \A b \in Range(ListedAll(sources)) :
                    Occurrences(Listed(merged_bookmarks, <<>>), b)
                        = Occurrences(ListedAll(sources), b)

\* In the middle of the second file, one bookmark has been discarded, one
\* kept, and one is still to come.
C10_MidMergeWithDuplicate ==
    /\ pc = "merge" /\ Len(sources) = 2 /\ stack # <<>>
    /\ duplicate_count = 1 /\ CountBookmarks(merged_bookmarks) >= 1
    /\ Processed < SumBookmarks(sources)

\* ------------------------------------------- of writing and reading back

\* An optional attribute as it comes back: the empty string is not written,
\* and so comes back missing.
Optional(v) == IF Truthy(v) THEN v ELSE None

\* A title as it comes back: one of whitespace only is cut down to a single
\* newline, or to a single space when it holds no newline.
TitleBack(t) ==
    IF t = <<>> \/ \E i \in 1..Len(t) : t[i] \notin {" ", "\n"} THEN t
    ELSE IF \E i \in 1..Len(t) : t[i] = "\n" THEN <<"\n">> ELSE <<" ">>

RECURSIVE AsReadBack(_)
\* The tree with every node as it comes back.
AsReadBack(items) ==
    IF items = <<>> THEN <<>>
    ELSE LET item == Head(items)
         IN  << IF item.type = "folder"
                THEN Folder(TitleBack(item.title), Optional(item.add_date),
                            Optional(item.last_modified), AsReadBack(item.children))
                ELSE Bookmark(TitleBack(item.title),
                              IF item.url = None THEN <<"N", "o", "n", "e">> ELSE item.url,
                              Optional(item.add_date), Optional(item.icon)) >>
             \o AsReadBack(Tail(items))

HasQuote(v) == \E i \in 1..Len(v) : v[i] = "\""

RECURSIVE QuoteFree(_)
\* No url and no optional attribute of the tree holds a double quote.
QuoteFree(items) ==
    \A i \in 1..Len(items) :
        IF items[i].type = "folder"
        THEN /\ ~HasQuote(items[i].add_date) /\ ~HasQuote(items[i].last_modified)
             /\ QuoteFree(items[i].children)
        ELSE /\ ~HasQuote(items[i].url) /\ ~HasQuote(items[i].add_date)
             /\ ~HasQuote(items[i].icon)

\* C7, as the code has it: a tree whose urls and optional attributes hold no
\* double quote, written by generate_netscape_html and read back by
\* parse_bookmarks, comes back with its structure, its order and its values,
\* but for this: an optional attribute that is the empty string comes back
\* missing, a missing url comes back as the text None, and a title of
\* whitespace only comes back as a single space or newline.
C7_ReadBackAsWritten ==
    (pc = "parsed" /\ QuoteFree(merged_bookmarks)) =>
        root_bookmarks = AsReadBack(merged_bookmarks)

\* A bookmark titled <&> came back as it was.
C7_EscapedTitleCameBack ==
    /\ pc = "parsed"
    /\ merged_bookmarks = <<Bookmark(<<"<", "&", ">">>, <<"u">>, None, None)>>
    /\ root_bookmarks = merged_bookmarks

\* C7 as stated: the tree read back is the tree written.
C7_SameTreeBack == pc = "parsed" => root_bookmarks = merged_bookmarks

=============================================================================
